---- MODULE Spec2Model ----
(***************************************************************************)
(* A model of mlpack::ann::SparseBiasLayer                                 *)
(* (src/mlpack/methods/ann/layer/sparse_bias_layer.hpp): the layer's       *)
(* fields, its constructor, move constructor, move assignment and          *)
(* destructor, the heap of optimizers the constructors allocate, and the   *)
(* three numeric operations Forward, Backward and Gradient over            *)
(* column-major matrices.                                                  *)
(***************************************************************************)
EXTENDS Integers, Sequences, FiniteSets

VARIABLES layers, optimizers, last, call

vars == <<layers, optimizers, last, call>>

(***************************************************************************)
(* Bounds of the model.                                                    *)
(***************************************************************************)
\* Number of SparseBiasLayer objects a run may bring to life.
NumLayers == 2
\* Largest outSize handed to the constructor.
MaxOutSize == 2
\* Largest sampleSize handed to the constructor.
MaxSampleSize == 2
\* Largest row and column counts of the matrices handed to the operations.
MaxRows == 2
MaxCols == 2

\* Element values the matrices are filled with.
Vals == {0, 1}

\* The null pointer.
NullOpt == 0

(***************************************************************************)
(* arma::Mat: n_rows, n_cols and the elements in column-major order.       *)
(***************************************************************************)
Mat(r, c, m) == [n_rows |-> r, n_cols |-> c, mem |-> m]

\* A default-constructed arma::Mat.
EmptyMat == Mat(0, 0, <<>>)

\* Element (i, j), 1-based, of a column-major matrix.
At(m, i, j) == m.mem[(j - 1) * m.n_rows + i]

\* arma::Mat::zeros(r, c), what ZeroInitialization fills a buffer with.
Zeros(r, c) == Mat(r, c, [k \in 1..(r * c) |-> 0])

\* All r x c matrices over the element values V.
MatricesOfShape(r, c, V) == {Mat(r, c, m) : m \in [1..(r * c) -> V]}

\* The matrices the operations are called with.
Matrices ==
  UNION {MatricesOfShape(r, c, Vals) : r \in 1..MaxRows, c \in 1..MaxCols}

(***************************************************************************)
(* A SparseBiasLayer object.  status is the object's lifetime, not a field *)
(* of the class; the other fields are the class's data members.            *)
(***************************************************************************)
Unborn ==
  [status |-> "unborn", outSize |-> 0, sampleSize |-> 0,
   weights |-> EmptyMat, delta |-> EmptyMat, gradient |-> EmptyMat,
   inputParameter |-> EmptyMat, outputParameter |-> EmptyMat,
   optimizer |-> NullOpt, ownsOptimizer |-> FALSE]

\* An object whose destructor has run: its storage is gone.
Dead == [Unborn EXCEPT !.status = "dead"]

\* The object a move constructor starts from: the matrices are
\* default-constructed; outSize, sampleSize, optimizer and ownsOptimizer
\* are not initialised, and operator= overwrites all four before reading
\* any of them, so the values written here are never observed.
Fresh == [Unborn EXCEPT !.status = "live"]

Layers == DOMAIN layers

Live(l) == layers[l].status = "live"

\* An optimizer that was never allocated.
NoOptimizer == [status |-> "none", layer |-> NullOpt, releases |-> 0]

\* No lifecycle operation / no numeric call in progress.
NoOp == [op |-> "none", dst |-> 0, src |-> 0]
NoCall ==
  [op |-> "none", layer |-> 0, input |-> EmptyMat, gy |-> EmptyMat,
   status |-> "none", output |-> EmptyMat, g |-> EmptyMat]

Idle == call.op = "none"

(***************************************************************************)
(* SparseBiasLayer(outSize, sampleSize, weightInitRule)                    *)
(***************************************************************************)
\* weightInitRule.Initialize(weights, outSize, 1) with the default rule,
\* ZeroInitialization.
ZeroInitialize(rows, cols) == Zeros(rows, cols)

\* Initialize(weights, outSize, 1) for any rule: an outSize x 1 matrix.
AnyInitialize(rows, cols) == MatricesOfShape(rows, cols, Vals)

\* new OptimizerType<...>(*this): the optimizer allocated by layer l's
\* constructor.  Every layer is constructed at most once, so the layer's
\* index names the allocation.
NewOptimizer(l) == l

\* The object the constructor leaves: the member initialisers and the
\* weights w that Initialize produced; the other matrices are
\* default-constructed.
Constructed(l, n, s, w) ==
  [status |-> "live", outSize |-> n, sampleSize |-> s,
   weights |-> w, delta |-> EmptyMat, gradient |-> EmptyMat,
   inputParameter |-> EmptyMat, outputParameter |-> EmptyMat,
   optimizer |-> NewOptimizer(l), ownsOptimizer |-> TRUE]

Construct(l, n, s, w) ==
  /\ Idle
  /\ layers[l].status = "unborn"
  /\ layers' = [layers EXCEPT ![l] = Constructed(l, n, s, w)]
  /\ optimizers' = [optimizers EXCEPT ![NewOptimizer(l)] =
       [status |-> "allocated", layer |-> l, releases |-> 0]]
  /\ last' = [op |-> "Construct", dst |-> l, src |-> 0]
  /\ UNCHANGED call

(***************************************************************************)
(* operator=(SparseBiasLayer&&), statement by statement, on the layer      *)
(* store L with destination d and source s (d = s is self-assignment).     *)
(***************************************************************************)
SwapField(L, d, s, f) == [L EXCEPT ![d][f] = L[s][f], ![s][f] = L[d][f]]

\* optimizer = layer.optimizer; ownsOptimizer = layer.ownsOptimizer;
TakeOptimizer(L, d, s) ==
  LET L1 == [L EXCEPT ![d].optimizer = L[s].optimizer]
  IN  [L1 EXCEPT ![d].ownsOptimizer = L1[s].ownsOptimizer]

\* layer.optimizer = nullptr; layer.ownsOptimizer = false;
ClearSource(L, d, s) ==
  LET L1 == [L EXCEPT ![s].optimizer = NullOpt]
  IN  [L1 EXCEPT ![s].ownsOptimizer = FALSE]

\* outSize = layer.outSize;
CopyOutSize(L, d, s) == [L EXCEPT ![d].outSize = L[s].outSize]

\* sampleSize = layer.sampleSize;
CopySampleSize(L, d, s) == [L EXCEPT ![d].sampleSize = L[s].sampleSize]

\* weights.swap(layer.weights); ... outputParameter.swap(layer.outputParameter);
SwapBuffers(L, d, s) ==
  LET L1 == SwapField(L, d, s, "weights")
      L2 == SwapField(L1, d, s, "delta")
      L3 == SwapField(L2, d, s, "gradient")
      L4 == SwapField(L3, d, s, "inputParameter")
  IN  SwapField(L4, d, s, "outputParameter")

\* operator= that leaves the source's optimizer and ownsOptimizer as they
\* were.
MoveAssignKeepsSourceOwner(L, d, s) ==
  SwapBuffers(
    CopySampleSize(CopyOutSize(TakeOptimizer(L, d, s), d, s), d, s), d, s)

\* operator= that does not copy outSize.
MoveAssignKeepsOutSize(L, d, s) ==
  SwapBuffers(
    CopySampleSize(ClearSource(TakeOptimizer(L, d, s), d, s), d, s), d, s)

\* operator= that does not copy sampleSize.
MoveAssignKeepsSampleSize(L, d, s) ==
  SwapBuffers(
    CopyOutSize(ClearSource(TakeOptimizer(L, d, s), d, s), d, s), d, s)

\* operator= that swaps delta with the other layer's gradient and gradient
\* with the other layer's delta.
MoveAssignCrossesBuffers(L, d, s) ==
  LET L0 == CopySampleSize(
              CopyOutSize(ClearSource(TakeOptimizer(L, d, s), d, s), d, s),
              d, s)
      L1 == SwapField(L0, d, s, "weights")
      L2 == [L1 EXCEPT ![d].delta = L1[s].gradient,
                       ![s].gradient = L1[d].delta]
      L3 == [L2 EXCEPT ![d].gradient = L2[s].delta,
                       ![s].delta = L2[d].gradient]
      L4 == SwapField(L3, d, s, "inputParameter")
  IN  SwapField(L4, d, s, "outputParameter")

\* The statements of operator= in their order.
MoveAssignResult(L, d, s) ==
  SwapBuffers(
    CopySampleSize(
      CopyOutSize(ClearSource(TakeOptimizer(L, d, s), d, s), d, s), d, s),
    d, s)

MoveAssign(d, s) ==
  /\ Idle
  /\ Live(d)
  /\ Live(s)
  /\ layers' = MoveAssignResult(layers, d, s)
  /\ last' = [op |-> "MoveAssign", dst |-> d, src |-> s]
  /\ UNCHANGED <<optimizers, call>>

(***************************************************************************)
(* SparseBiasLayer(SparseBiasLayer&&): *this = std::move(layer) on a new   *)
(* object.                                                                 *)
(***************************************************************************)
MoveConstruct(d, s) ==
  /\ Idle
  /\ layers[d].status = "unborn"
  /\ Live(s)
  /\ layers' = MoveAssignResult([layers EXCEPT ![d] = Fresh], d, s)
  /\ last' = [op |-> "MoveConstruct", dst |-> d, src |-> s]
  /\ UNCHANGED <<optimizers, call>>

(***************************************************************************)
(* ~SparseBiasLayer(): if (ownsOptimizer) delete optimizer;                *)
(***************************************************************************)
\* delete p: a no-op on the null pointer, otherwise one more release of p.
Delete(O, p) ==
  IF p = NullOpt THEN O
  ELSE [O EXCEPT ![p].status = "released", ![p].releases = @ + 1]

Destroy(l) ==
  /\ Idle
  /\ Live(l)
  /\ optimizers' = IF layers[l].ownsOptimizer
                   THEN Delete(optimizers, layers[l].optimizer)
                   ELSE optimizers
  /\ layers' = [layers EXCEPT ![l] = Dead]
  /\ last' = [op |-> "Destroy", dst |-> l, src |-> 0]
  /\ UNCHANGED call

(***************************************************************************)
(* The lifecycle specification: layers are constructed with the default    *)
(* weight initialisation, moved and destroyed.                             *)
(***************************************************************************)
Init ==
  /\ layers = [l \in 1..NumLayers |-> Unborn]
  /\ optimizers = [o \in 1..NumLayers |-> NoOptimizer]
  /\ last = NoOp
  /\ call = NoCall

Next ==
  \/ \E l \in Layers, n \in 1..MaxOutSize, s \in 1..MaxSampleSize :
       Construct(l, n, s, ZeroInitialize(n, 1))
  \/ \E d \in Layers, s \in Layers : MoveConstruct(d, s)
  \/ \E d \in Layers, s \in Layers : MoveAssign(d, s)
  \/ \E l \in Layers : Destroy(l)

Spec == Init /\ [][Next]_vars

(***************************************************************************)
(* The mutable accessors Delta(), Gradient(), InputParameter() and         *)
(* OutputParameter() hand out references to the buffers; the caller        *)
(* stores a matrix through one of them.                                    *)
(***************************************************************************)
BufferFields == {"delta", "gradient", "inputParameter", "outputParameter"}

AllBuffers == BufferFields \cup {"weights"}

SetBuffer(l, f, m) ==
  /\ Idle
  /\ Live(l)
  /\ layers[l][f] # m
  /\ layers' = [layers EXCEPT ![l][f] = m]
  /\ last' = [op |-> "SetBuffer", dst |-> l, src |-> 0]
  /\ UNCHANGED <<optimizers, call>>

(***************************************************************************)
(* Forward: output = input + arma::repmat(weights, 1, input.n_cols)        *)
(***************************************************************************)
\* arma::repmat(A, p, q): p x q copies of A, (A.n_rows p) x (A.n_cols q).
Repmat(A, p, q) ==
  LET r == A.n_rows * p
      c == A.n_cols * q
  IN  Mat(r, c, [k \in 1..(r * c) |->
        LET i == ((k - 1) % r) + 1
            j == ((k - 1) \div r) + 1
        IN  At(A, ((i - 1) % A.n_rows) + 1, ((j - 1) % A.n_cols) + 1)])

\* input + rep into output.  When the two operands of + have the same size
\* the sum is taken element by element.  When they differ, a build with
\* Armadillo's checks raises std::logic_error and leaves output alone; a
\* build without them (ARMA_NO_DEBUG) gives output the size of input and
\* adds the operands by linear index, reading past the end of a smaller
\* right operand, where it finds an arbitrary value.
Plus(input, rep, output) ==
  LET n == input.n_rows * input.n_cols
  IN  IF rep.n_rows = input.n_rows /\ rep.n_cols = input.n_cols
      THEN {[status |-> "ok",
             output |-> Mat(input.n_rows, input.n_cols,
                            [k \in 1..n |-> input.mem[k] + rep.mem[k]])]}
      ELSE {[status |-> "logic_error", output |-> output]}
           \cup {[status |-> "ok",
                  output |-> Mat(input.n_rows, input.n_cols,
                    [k \in 1..n |-> input.mem[k] +
                       (IF k <= Len(rep.mem) THEN rep.mem[k] ELSE junk)])] :
                 junk \in Vals}

\* Forward with the arguments of repmat exchanged.
ForwardRepmatExchanged(layer, input, output) ==
  Plus(input, Repmat(layer.weights, input.n_cols, 1), output)

\* The outcomes of Forward on a layer, an input and the caller's output
\* matrix: the status of the call and what output holds after it.
Forward(layer, input, output) ==
  Plus(input, Repmat(layer.weights, 1, input.n_cols), output)

(***************************************************************************)
(* Backward: g = gy                                                        *)
(***************************************************************************)
\* Backward handing back the input activation.
BackwardOfInput(layer, input, gy, g) == input

Backward(layer, input, gy, g) == gy

(***************************************************************************)
(* Gradient: g = arma::sum(d, 1) / static_cast<double>(sampleSize)         *)
(***************************************************************************)
RECURSIVE GCD(_, _)
GCD(a, b) == IF b = 0 THEN a ELSE GCD(b, a % b)

\* The quotient a / b of two non-negative numbers, b > 0, as the fraction
\* in lowest terms.
Quotient(a, b) == <<a \div GCD(a, b), b \div GCD(a, b)>>

RECURSIVE RowSumTo(_, _, _)
RowSumTo(d, i, j) == IF j = 0 THEN 0 ELSE RowSumTo(d, i, j - 1) + At(d, i, j)

\* arma::sum(d, 1): the column of the sums of each row.
RowSum(d, i) == RowSumTo(d, i, d.n_cols)

\* Gradient dividing by the number of columns of d.
GradientByColumns(layer, d, g) ==
  Mat(d.n_rows, 1,
      [i \in 1..d.n_rows |-> Quotient(RowSum(d, i), d.n_cols)])

Gradient(layer, d, g) ==
  Mat(d.n_rows, 1,
      [i \in 1..d.n_rows |-> Quotient(RowSum(d, i), layer.sampleSize)])

(***************************************************************************)
(* The caller invokes one operation on a live layer, looks at the result   *)
(* and returns before it does anything else.                               *)
(***************************************************************************)
\* What the caller's result matrix holds before the call: a new matrix or
\* one left over from an earlier call.
PriorContents == {EmptyMat, Zeros(1, 1)}

ForwardCall(l) ==
  /\ Idle
  /\ Live(l)
  /\ \E input \in Matrices, output \in PriorContents :
       \E r \in Forward(layers[l], input, output) :
         call' = [op |-> "Forward", layer |-> l, input |-> input,
                  gy |-> EmptyMat, status |-> r.status,
                  output |-> r.output, g |-> EmptyMat]
  /\ UNCHANGED <<layers, optimizers, last>>

BackwardCall(l) ==
  /\ Idle
  /\ Live(l)
  /\ \E input \in PriorContents, gy \in Matrices, g \in PriorContents :
       call' = [op |-> "Backward", layer |-> l, input |-> input,
                gy |-> gy, status |-> "ok", output |-> EmptyMat,
                g |-> Backward(layers[l], input, gy, g)]
  /\ UNCHANGED <<layers, optimizers, last>>

GradientCall(l) ==
  /\ Idle
  /\ Live(l)
  /\ \E d \in Matrices, g \in PriorContents :
       call' = [op |-> "Gradient", layer |-> l, input |-> d,
                gy |-> EmptyMat, status |-> "ok", output |-> EmptyMat,
                g |-> Gradient(layers[l], d, g)]
  /\ UNCHANGED <<layers, optimizers, last>>

Return ==
  /\ ~Idle
  /\ call' = NoCall
  /\ UNCHANGED <<layers, optimizers, last>>

(***************************************************************************)
(* The buffer specification: a pair of layers of one configuration, the    *)
(* buffers written through the accessors, and the layers moved and         *)
(* destroyed.                                                              *)
(***************************************************************************)
NextBuf ==
  \/ \E l \in Layers : Construct(l, 1, 1, ZeroInitialize(1, 1))
  \/ \E l \in Layers, f \in BufferFields : SetBuffer(l, f, Zeros(1, 1))
  \/ \E d \in Layers, s \in Layers : MoveConstruct(d, s)
  \/ \E d \in Layers, s \in Layers : MoveAssign(d, s)
  \/ \E l \in Layers : Destroy(l)

\* A source and a destination, neither constructed yet.
InitBuf ==
  /\ layers = <<Unborn, Unborn>>
  /\ optimizers = <<NoOptimizer, NoOptimizer>>
  /\ last = NoOp
  /\ call = NoCall

SpecBuf == InitBuf /\ [][NextBuf]_vars

(***************************************************************************)
(* The move specification: a pair of layers constructed with any weight    *)
(* initialisation rule, moved and destroyed.                               *)
(***************************************************************************)
NextMove ==
  \/ \E l \in Layers, n \in 1..MaxOutSize, s \in 1..MaxSampleSize :
       \E w \in AnyInitialize(n, 1) : Construct(l, n, s, w)
  \/ \E d \in Layers, s \in Layers : MoveConstruct(d, s)
  \/ \E d \in Layers, s \in Layers : MoveAssign(d, s)
  \/ \E l \in Layers : Destroy(l)

SpecMove == InitBuf /\ [][NextMove]_vars

(***************************************************************************)
(* The numeric specification: a layer constructed with any weight          *)
(* initialisation rule, possibly moved into a second layer, and the three  *)
(* operations called on either.                                            *)
(***************************************************************************)
InitNum ==
  /\ \E n \in 1..MaxOutSize, s \in 1..MaxSampleSize :
       \E w \in AnyInitialize(n, 1) :
         layers = <<Constructed(1, n, s, w), Unborn>>
  /\ optimizers = <<[status |-> "allocated", layer |-> 1, releases |-> 0],
                    NoOptimizer>>
  /\ last = [op |-> "Construct", dst |-> 1, src |-> 0]
  /\ call = NoCall

NextNum ==
  \/ \E d \in Layers, s \in Layers : MoveConstruct(d, s)
  \/ \E l \in Layers : ForwardCall(l)
  \/ \E l \in Layers : BackwardCall(l)
  \/ \E l \in Layers : GradientCall(l)
  \/ Return

SpecNum == InitNum /\ [][NextNum]_vars

(***************************************************************************)
(* Properties.                                                             *)
(***************************************************************************)
MoveOps == {"MoveAssign", "MoveConstruct"}

\* The last operation moved a layer into another one.
Moved == last.op \in MoveOps /\ last.dst # last.src

Holds(l, o) == Live(l) /\ layers[l].optimizer = o

Owners(o) == {l \in Layers : Holds(l, o) /\ layers[l].ownsOptimizer}

\* The weights of a layer are a column of outSize elements.
WeightsSized(layer) ==
  layer.weights.n_rows = layer.outSize /\ layer.weights.n_cols = 1

\* C1: no optimizer is ever released twice, and once every layer has been
\* destroyed every optimizer a constructor allocated has been released
\* exactly once.
C1_ReleasedExactlyOnce ==
  /\ \A o \in DOMAIN optimizers : optimizers[o].releases <= 1
  /\ (\A l \in Layers : ~Live(l)) =>
       (\A o \in DOMAIN optimizers :
          optimizers[o].status # "none" => optimizers[o].releases = 1)

\* An optimizer is owned by at most one live layer, no live layer owns a
\* released optimizer, and right after a move the source's handle is null
\* and its owns flag is false.
SingleOwner ==
  /\ \A o \in DOMAIN optimizers :
       /\ Cardinality(Owners(o)) <= 1
       /\ optimizers[o].status = "released" => Owners(o) = {}
  /\ last.op \in MoveOps =>
       /\ layers[last.src].optimizer = NullOpt
       /\ ~layers[last.src].ownsOptimizer

\* C2: in every state an optimizer is owned by at most one live layer and
\* the source of the move just made has a null handle and a false owns
\* flag; and destroying that source releases nothing.
C2_SingleOwner ==
  /\ []SingleOwner
  /\ [][\A l \in Layers :
          (last.op \in MoveOps /\ last.src = l /\ Destroy(l)) =>
            optimizers' = optimizers]_vars

\* A move has handed an owned optimizer from one layer to another.
C2_Witness ==
  /\ Moved
  /\ layers[last.dst].optimizer = last.src
  /\ layers[last.dst].ownsOptimizer
  /\ Live(last.src)

\* C9, as claimed: the weights of every live layer, moved from or not, have
\* outSize elements.
C9_WeightsSizedEverywhere ==
  \A l \in Layers : Live(l) => WeightsSized(layers[l])

\* C9, amended: the weights of every live layer that holds an optimizer
\* have outSize elements.
C9_WeightsSizedWhereOptimizer ==
  \A l \in Layers :
    (Live(l) /\ layers[l].optimizer # NullOpt) => WeightsSized(layers[l])

\* A move-assignment between layers of different outSize has left the
\* destination with the source's optimizer and the source with weights of
\* another length than its outSize.
C9_Witness ==
  /\ last.op = "MoveAssign"
  /\ last.dst # last.src
  /\ layers[last.dst].optimizer # NullOpt
  /\ layers[last.src].weights # EmptyMat
  /\ ~WeightsSized(layers[last.src])

\* C10: the optimizer a live layer holds is bound to that layer.
C10_OptimizerBoundToHolder ==
  \A l \in Layers :
    (Live(l) /\ layers[l].optimizer # NullOpt) =>
      optimizers[layers[l].optimizer].layer = l

\* One matrix of every shape the operations are called with.  The three
\* operations treat every element of their argument alike, so one argument
\* of each shape tells two layers apart whenever any argument does.
Probes ==
  UNION {MatricesOfShape(r, c, {1}) : r \in 1..MaxRows, c \in 1..MaxCols}

\* The results of the three operations on layer b are those on layer a.
SameResults(b, a) ==
  \A x \in Probes :
    /\ Forward(b, x, EmptyMat) = Forward(a, x, EmptyMat)
    /\ Gradient(b, x, EmptyMat) = Gradient(a, x, EmptyMat)
    /\ Backward(b, EmptyMat, x, EmptyMat) = Backward(a, EmptyMat, x, EmptyMat)

\* C6: a move-construction or move-assignment leaves the destination with
\* the weights, outSize and sampleSize the source had before the move, and
\* Forward, Backward and Gradient on the destination give, on an argument
\* of any shape, what they gave on the source before the move.
C6_MoveEquivalence ==
  [][\A d \in Layers, s \in Layers :
       (MoveAssign(d, s) \/ MoveConstruct(d, s)) =>
         /\ layers'[d].weights = layers[s].weights
         /\ layers'[d].outSize = layers[s].outSize
         /\ layers'[d].sampleSize = layers[s].sampleSize
         /\ SameResults(layers'[d], layers[s])]_vars

\* A move-assignment has replaced the weights of an existing layer by the
\* non-zero weights, of another length, of the source.
C6_Witness ==
  /\ last.op = "MoveAssign"
  /\ last.dst # last.src
  /\ layers[last.dst].optimizer # NullOpt
  /\ \E k \in DOMAIN layers[last.dst].weights.mem :
       layers[last.dst].weights.mem[k] = 1
  /\ layers[last.src].weights # EmptyMat
  /\ layers[last.src].weights.n_rows # layers[last.dst].weights.n_rows

\* C7, as claimed: right after a move between two layers the five buffers
\* of the source are empty.
C7_SourceBuffersEmpty ==
  Moved => \A f \in AllBuffers : layers[last.src][f] = EmptyMat

\* C7, amended: a move between two layers leaves in each buffer of the
\* source what that buffer of the destination held before the move (nothing
\* when the destination is new or its buffer was empty), and in each buffer
\* of the destination what the source's held.
C7_BuffersExchanged ==
  [][\A d \in Layers, s \in Layers :
       (d # s /\ (MoveAssign(d, s) \/ MoveConstruct(d, s))) =>
         \A f \in AllBuffers :
           /\ layers'[s][f] = layers[d][f]
           /\ layers'[d][f] = layers[s][f]]_vars

\* A move-assignment has left the source holding a delta and the
\* destination a gradient, while a move-construction would have left the
\* source empty.
C7_Witness ==
  /\ last.op = "MoveAssign"
  /\ last.dst # last.src
  /\ layers[last.src].delta # EmptyMat
  /\ layers[last.src].gradient = EmptyMat
  /\ layers[last.dst].gradient # EmptyMat
  /\ layers[last.dst].delta = EmptyMat

\* Forward has been called with an input of outSize rows.
ForwardConforming ==
  call.op = "Forward" /\ call.input.n_rows = layers[call.layer].outSize

\* The call succeeded, output has the shape of input, element (i, j) is
\* input(i, j) + weights(i), and the call gives the same for any previous
\* contents of output.
ForwardAddsWeights ==
  LET w == layers[call.layer].weights
  IN  /\ call.status = "ok"
      /\ call.output.n_rows = call.input.n_rows
      /\ call.output.n_cols = call.input.n_cols
      /\ \A i \in 1..call.input.n_rows, j \in 1..call.input.n_cols :
           /\ i <= Len(w.mem)
           /\ At(call.output, i, j) = At(call.input, i, j) + w.mem[i]
      /\ \A prior \in PriorContents :
           Forward(layers[call.layer], call.input, prior)
             = {[status |-> "ok", output |-> call.output]}

C8_ForwardRejectsOtherRows ==
  (call.op = "Forward" /\ call.input.n_rows # layers[call.layer].outSize) =>
    call.status # "ok"

RECURSIVE SumOfRow(_, _, _)
\* The sum of the elements of row i of d in the columns J.
SumOfRow(d, i, J) ==
  IF J = {} THEN 0
  ELSE LET j == CHOOSE x \in J : TRUE
       IN  At(d, i, j) + SumOfRow(d, i, J \ {j})

\* C4: Gradient sets g to a column with one element for each row of d
\* (outSize of them when d has outSize rows), element i being the sum of
\* row i of d divided by the layer's sampleSize, whatever the number of
\* columns of d.
C4_GradientDividesBySampleSize ==
  call.op = "Gradient" =>
    LET layer == layers[call.layer]
        d == call.input
        g == call.g
    IN  /\ g.n_rows = d.n_rows
        /\ g.n_cols = 1
        /\ d.n_rows = layer.outSize => g.n_rows = layer.outSize
        /\ \A i \in 1..d.n_rows :
             /\ g.mem[i][2] > 0
             /\ g.mem[i][1] * layer.sampleSize
                  = SumOfRow(d, i, 1..d.n_cols) * g.mem[i][2]

\* Gradient has divided the row sums of a two-column d by a sampleSize
\* of 1.
C4_Witness ==
  /\ call.op = "Gradient"
  /\ layers[call.layer].sampleSize = 1
  /\ layers[call.layer].outSize = 2
  /\ call.input.n_rows = 2
  /\ call.input.n_cols = 2
  /\ call.g.mem = << <<2, 1>>, <<1, 1>> >>

\* C5: Backward leaves g equal to gy, whatever the input, the layer and
\* the previous contents of g.
C5_BackwardIsIdentity ==
  call.op = "Backward" =>
    /\ call.g = call.gy
    /\ \A l \in Layers, x \in PriorContents, g \in PriorContents :
         Backward(layers[l], x, call.gy, g) = call.gy

\* Backward has been called with a 2 x 2 error that is not the input.
C5_Witness ==
  /\ call.op = "Backward"
  /\ call.input # call.gy
  /\ call.input # EmptyMat
  /\ call.gy.n_rows = 2
  /\ call.gy.n_cols = 2
  /\ call.gy.mem = <<1, 0, 1, 1>>
  /\ call.g = call.gy

====
